---- MODULE Spec2Model ----
(***************************************************************************)
(* DocumentProcessor (lib/document_processor.py): DOCX text extraction     *)
(* with a structured (python-docx) path and a raw-markup fallback.         *)
(*                                                                         *)
(* A Python str is modelled as a sequence of one-character strings, so     *)
(* that strip(), join(), startswith() and len() are computed, not assumed. *)
(***************************************************************************)
EXTENDS Integers, Sequences, FiniteSets, TLC

VARIABLES
    pc,             \* position of the running call
    entry,          \* the function the caller invoked
    file,           \* the file behind file_path: [exists, ext]
    doc,            \* the python-docx Document, once opened
    text_parts,     \* extract_docx_content's text_parts
    para_i,         \* index of the next paragraph of doc.paragraphs
    table_i,        \* index of the current table of doc.tables
    row_i,          \* index of the next row of the current table
    discarded,      \* what the structured path had collected when it raised:
                    \* "nothing", "items", or "piped_row" (an item joining two cells or more)
    printed,        \* what print() wrote, one string per call
    manual_calls,   \* number of calls of _extract_docx_manual
    archive,        \* what zipfile.ZipFile / namelist() showed: "none", "bad", "no_entry", "ok"
    parsed,         \* ET.parse: "no" (not called), "failed" (raised), "ok"
    root,           \* the root Element handed to _extract_formatted_text
    xml_text_parts, \* _extract_formatted_text's text_parts
    tiers_run,      \* the tiers of _extract_formatted_text whose body ran
    tier_of_items,  \* the tier that produced xml_text_parts (0: none)
    fmt_ret,        \* value returned by _extract_formatted_text
    manual_ret,     \* value returned by _extract_docx_manual
    content,        \* value returned by extract_docx_content / content of process_document
    metadata        \* metadata map returned by process_document

vars == <<pc, entry, file, doc, text_parts, para_i, table_i, row_i, discarded, printed,
          manual_calls, archive, parsed, root, xml_text_parts, tiers_run,
          tier_of_items, fmt_ret, manual_ret, content, metadata>>

----------------------------------------------------------------------------
(* Bounds of the model *)

\* paragraphs plus table cells of a Document
MaxSize == 3
\* elements of a markup tree
MaxNodes == 3
\* non-empty text / tail fields of a markup tree
MaxTexts == 2

----------------------------------------------------------------------------
(* Strings *)

\* characters str.strip() removes (the ones the model uses)
Whitespace == {" ", "\n"}

RECURSIVE LStrip(_)
LStrip(s) == IF s # <<>> /\ Head(s) \in Whitespace THEN LStrip(Tail(s)) ELSE s

RECURSIVE RStrip(_)
RStrip(s) ==
    IF s # <<>> /\ s[Len(s)] \in Whitespace
    THEN RStrip(SubSeq(s, 1, Len(s) - 1))
    ELSE s

\* a strip() that forgets the right end
StripLeftOnly(s) == LStrip(s)

\* str.strip()
Strip(s) == RStrip(LStrip(s))

\* a join that drops the separator
RECURSIVE JoinWithoutSeparator(_, _)
JoinWithoutSeparator(sep, parts) ==
    IF parts = <<>> THEN <<>> ELSE Head(parts) \o JoinWithoutSeparator(sep, Tail(parts))

\* sep.join(parts)
RECURSIVE Join(_, _)
Join(sep, parts) ==
    IF parts = <<>> THEN <<>>
    ELSE IF Len(parts) = 1 THEN parts[1]
    ELSE parts[1] \o sep \o Join(sep, Tail(parts))

\* ''.join(parts)
RECURSIVE Concat(_)
Concat(parts) == IF parts = <<>> THEN <<>> ELSE Head(parts) \o Concat(Tail(parts))

\* s.startswith(p)
StartsWith(s, p) == Len(s) >= Len(p) /\ SubSeq(s, 1, Len(p)) = p

\* p in s
Contains(s, p) ==
    \E k \in 0..(Len(s) - Len(p)) : SubSeq(s, k + 1, k + Len(p)) = p

\* str.lower(), on the characters file extensions use
LowerChar(c) ==
    CASE c = "D" -> "d"
      [] c = "O" -> "o"
      [] c = "C" -> "c"
      [] c = "X" -> "x"
      [] OTHER -> c

Lower(s) == [k \in 1..Len(s) |-> LowerChar(s[k])]

\* '\n\n', the separator of the returned items
BlankLine == <<"\n", "\n">>

\* ' | ', the separator of the cells of a table row
Pipe == <<" ", "|", " ">>

ErrorPrefix == <<"E", "r", "r", "o", "r">>

ManualErrorPrefix ==
    <<"E", "r", "r", "o", "r", " ", "e", "x", "t", "r", "a", "c", "t", "i", "n",
      "g", " ", "D", "O", "C", "X", " ", "c", "o", "n", "t", "e", "n", "t", ":", " ">>

MissingEntryError ==
    <<"E", "r", "r", "o", "r", ":", " ", "C", "o", "u", "l", "d", " ", "n", "o",
      "t", " ", "f", "i", "n", "d", " ", "d", "o", "c", "u", "m", "e", "n", "t",
      ".", "x", "m", "l", " ", "i", "n", " ", "D", "O", "C", "X", " ", "f", "i",
      "l", "e">>

UnsupportedPrefix ==
    <<"U", "n", "s", "u", "p", "p", "o", "r", "t", "e", "d", " ", "f", "i", "l",
      "e", " ", "f", "o", "r", "m", "a", "t", ":", " ">>

StructuredLogPrefix ==
    <<"E", "r", "r", "o", "r", " ", "e", "x", "t", "r", "a", "c", "t", "i", "n",
      "g", " ", "D", "O", "C", "X", " ", "c", "o", "n", "t", "e", "n", "t", " ",
      "w", "i", "t", "h", " ", "p", "y", "t", "h", "o", "n", "-", "d", "o", "c",
      "x", ":", " ">>

MetadataErrorPrefix ==
    <<"C", "o", "u", "l", "d", " ", "n", "o", "t", " ", "g", "e", "t", " ", "m",
      "e", "t", "a", "d", "a", "t", "a", ":", " ">>

DocxExt == <<".", "d", "o", "c", "x">>

----------------------------------------------------------------------------
(* Inputs *)

\* the value of a variable that holds no string yet
None == <<"None">>

\* file, doc, root and metadata before they are set
NoFile == [exists |-> FALSE, ext |-> <<>>]
NoDoc == [paragraphs |-> <<>>, tables |-> <<>>]
NoRoot == [n |-> 0, parent |-> <<>>, tag |-> <<>>, text |-> <<>>, tail |-> <<>>]
NoMetadata == [unset |-> TRUE]

\* entry, before any call
NoCall == "none"

\* str(e) of the exceptions zipfile, ET.parse and os.stat raise
ExcMessages == {<<>>, <<"b", "a", "d">>}

\* str(e) of the exceptions python-docx raises; the same text can come
\* again from the fallback
DocxExcMessages == {<<"b", "a", "d">>}

\* os.path.splitext(file_path)[1] of the files the caller names
Extensions ==
    { DocxExt,
      <<".", "D", "O", "C", "X">>,
      <<".", "d", "o", "c">>,
      <<".", "t", "x", "t">>,
      <<>> }

Files == [exists : BOOLEAN, ext : Extensions]

\* paragraph.text / cell.text values: empty, whitespace-only, padded, plain
Texts == { <<>>, <<" ">>, <<" ", "a", "\n">>, <<"b">> }

\* the rows of k cells
RowsOfSize(k) == [1..k -> Texts]

\* the tables (non-empty sequences of non-empty rows) holding k cells
RECURSIVE TablesOfSize(_)
TablesOfSize(k) ==
    { <<r>> : r \in RowsOfSize(k) } \cup
    UNION { { <<r>> \o t : r \in RowsOfSize(j), t \in TablesOfSize(k - j) }
            : j \in 1..(k - 1) }

\* the values of doc.tables holding k cells in all
RECURSIVE TableListsOfSize(_)
TableListsOfSize(k) ==
    IF k = 0 THEN { <<>> }
    ELSE UNION { { <<t>> \o l : t \in TablesOfSize(j), l \in TableListsOfSize(k - j) }
                 : j \in 1..k }

\* the Documents python-docx can hand back, by number of paragraphs and of
\* table cells: doc.paragraphs and doc.tables
DocsOfSize(p, k) == [paragraphs : [1..p -> Texts], tables : TableListsOfSize(k)]

\* the (paragraphs, cells) sizes within the bound
DocSizes == { pk \in (0..MaxSize) \X (0..MaxSize) : pk[1] + pk[2] <= MaxSize }

\* tags of the markup elements: the paragraph tag w:p and any other tag
ParagraphTag == "w:p"
Tags == { ParagraphTag, "w:r" }

\* Element.text / Element.tail of element i: None, whitespace-only, or a
\* padded word; every field has its own letter, so items are told apart
TextLetters == <<"a", "b", "c", "d", "e">>
TailLetters == <<"A", "B", "C", "D", "E">>
FieldKinds == { "none", "space", "word" }
FieldValue(kind, letter) ==
    CASE kind = "none" -> <<>>
      [] kind = "space" -> <<" ">>
      [] OTHER -> <<" ", letter, "\n">>

\* a is b or an ancestor of b, under the parent function par
RECURSIVE IsAncestorOrSelf(_, _, _)
IsAncestorOrSelf(par, a, b) ==
    a = b \/ (b > 1 /\ IsAncestorOrSelf(par, a, par[b]))

\* parent functions of the trees of n elements listed in document order:
\* element 1 is the root, every other element hangs below an element of the
\* path from the root to its predecessor
Shapes(n) ==
    { par \in [1..n -> 0..n] :
        /\ par[1] = 0
        /\ \A i \in 2..n : par[i] \in 1..(i - 1) /\ IsAncestorOrSelf(par, par[i], i - 1) }

FieldCount(kinds) == Cardinality({ i \in DOMAIN kinds : kinds[i] # "none" })

\* the kinds of the text and tail fields of n elements, within the bound
FieldSets(n) ==
    { f \in [1..n -> FieldKinds] \X [1..n -> FieldKinds] :
        FieldCount(f[1]) + FieldCount(f[2]) <= MaxTexts }

\* the Element tree of n elements with these parents, tags and fields
TreeOf(n, par, tg, f) ==
    [ n |-> n, parent |-> par, tag |-> tg,
      text |-> [i \in 1..n |-> FieldValue(f[1][i], TextLetters[i])],
      tail |-> [i \in 1..n |-> FieldValue(f[2][i], TailLetters[i])] ]

\* a root ET.parse(...).getroot() can return for word/document.xml: the
\* root has no tail, and is the document element, not a paragraph
IsParsedRoot(t) == t.tail[1] = <<>> /\ t.tag[1] # ParagraphTag

----------------------------------------------------------------------------
(* Element operations *)

\* 1, 2, ..., n
Indices(n) == [j \in 1..n |-> j]

\* list(elem): the children of element i, in document order
Children(t, i) == SelectSeq(Indices(t.n), LAMBDA j : t.parent[j] = i)

\* elem.itertext(): the element's text, then for every child its itertext()
\* and its tail; None and '' are skipped
RECURSIVE IterText(_, _)
RECURSIVE ChildrenText(_, _)

\* an itertext() that forgets the tails of the children
RECURSIVE ChildrenTextWithoutTails(_, _)
ChildrenTextWithoutTails(t, cs) ==
    IF cs = <<>> THEN <<>>
    ELSE IterText(t, Head(cs)) \o ChildrenTextWithoutTails(t, Tail(cs))

IterText(t, i) ==
    (IF t.text[i] # <<>> THEN <<t.text[i]>> ELSE <<>>) \o ChildrenText(t, Children(t, i))

ChildrenText(t, cs) ==
    IF cs = <<>> THEN <<>>
    ELSE IterText(t, Head(cs))
         \o (IF t.tail[Head(cs)] # <<>> THEN <<t.tail[Head(cs)]>> ELSE <<>>)
         \o ChildrenText(t, Tail(cs))

\* root.findall('.//w:p', namespaces): the paragraph elements below the
\* root (the root itself is never matched), in document order
FindAllParagraphs(t) ==
    SelectSeq(Indices(t.n), LAMBDA j : j > 1 /\ t.tag[j] = ParagraphTag)

\* the loop over the paragraphs found: one stripped item per paragraph
\* whose concatenated text is not whitespace-only
RECURSIVE ParagraphScan(_, _, _)
ParagraphScan(t, paras, parts) ==
    IF paras = <<>> THEN parts
    ELSE LET para_text == Concat(IterText(t, Head(paras)))
         IN  ParagraphScan(t, Tail(paras),
                 IF Strip(para_text) # <<>> THEN Append(parts, Strip(para_text)) ELSE parts)

\* the whole-tree text: ''.join(root.itertext()), stripped, as the only item
WholeTreeText(t) ==
    LET all_text == Concat(IterText(t, 1))
    IN  IF Strip(all_text) # <<>> THEN << Strip(all_text) >> ELSE <<>>

\* the loop over root.iter() (document order, root included): stripped
\* text, then stripped tail, of every element
RECURSIVE ElementWalk(_, _, _)
ElementWalk(t, i, parts) ==
    IF i > t.n THEN parts
    ELSE LET with_text == IF t.text[i] # <<>> /\ Strip(t.text[i]) # <<>>
                          THEN Append(parts, Strip(t.text[i])) ELSE parts
             with_tail == IF t.tail[i] # <<>> /\ Strip(t.tail[i]) # <<>>
                          THEN Append(with_text, Strip(t.tail[i])) ELSE with_text
         IN  ElementWalk(t, i + 1, with_tail)

\* a loop over row.cells that keeps the whitespace-only cells
RECURSIVE RowTextOfAllCells(_, _)
RowTextOfAllCells(cells, row_text) ==
    IF cells = <<>> THEN row_text
    ELSE RowTextOfAllCells(Tail(cells), Append(row_text, Strip(Head(cells))))

\* the loop over row.cells: the stripped texts of the cells that are not
\* whitespace-only
RECURSIVE RowText(_, _)
RowText(cells, row_text) ==
    IF cells = <<>> THEN row_text
    ELSE RowText(Tail(cells),
             IF Strip(Head(cells)) # <<>> THEN Append(row_text, Strip(Head(cells)))
             ELSE row_text)

----------------------------------------------------------------------------
(* Returns and exception handlers *)

\* extract_docx_content returns v to its caller
ReturnFromExtract(v) ==
    /\ content' = v
    /\ pc' = IF entry = "process_document" THEN "update_metadata" ELSE "done"

\* _extract_docx_manual returns v to its caller
ReturnFromManual(v) ==
    /\ manual_ret' = v
    /\ IF entry = "_extract_docx_manual"
       THEN pc' = "done" /\ UNCHANGED content
       ELSE ReturnFromExtract(v)

\* _extract_formatted_text returns v to its caller
ReturnFromFormatted(v) ==
    /\ fmt_ret' = v
    /\ IF entry = "_extract_formatted_text"
       THEN pc' = "done" /\ UNCHANGED <<manual_ret, content>>
       ELSE ReturnFromManual(v)

\* an except clause that lets the exception through to the caller
ManualExceptReraises(msg) == pc' = "uncaught" /\ UNCHANGED <<manual_ret, content>>

\* except Exception as e, in _extract_docx_manual
ManualExcept(msg) == ReturnFromManual(ManualErrorPrefix \o msg)

\* an except clause that reports and returns without falling back
StructuredExceptWithoutFallback(msg) ==
    /\ printed' = Append(printed, StructuredLogPrefix \o msg)
    /\ pc' = IF entry = "process_document" THEN "update_metadata" ELSE "done"

\* except Exception as e, in extract_docx_content: report, then fall back
StructuredExcept(msg) ==
    /\ printed' = Append(printed, StructuredLogPrefix \o msg)
    /\ pc' = "manual_open"

\* a success flag that forgets the 'Error' prefix
ExtractionSuccessByLength(c) == Len(c) > 0

\* len(content) > 0 and not content.startswith('Error')
ExtractionSuccess(c) == Len(c) > 0 /\ ~StartsWith(c, ErrorPrefix)

----------------------------------------------------------------------------
(* The state after DocumentProcessor() *)

Init ==
    /\ pc = "idle"
    /\ entry = NoCall
    /\ file = NoFile
    /\ doc = NoDoc
    /\ text_parts = <<>>
    /\ para_i = 0
    /\ table_i = 0
    /\ row_i = 0
    /\ discarded = "nothing"
    /\ printed = <<>>
    /\ manual_calls = 0
    /\ archive = "none"
    /\ parsed = "no"
    /\ root = NoRoot
    /\ xml_text_parts = <<>>
    /\ tiers_run = {}
    /\ tier_of_items = 0
    /\ fmt_ret = None
    /\ manual_ret = None
    /\ content = None
    /\ metadata = NoMetadata

structured_vars == <<doc, text_parts, para_i, table_i, row_i, discarded, printed>>
manual_vars == <<manual_calls, archive, parsed>>
formatted_vars == <<root, xml_text_parts, tiers_run, tier_of_items>>
return_vars == <<fmt_ret, manual_ret, content>>

----------------------------------------------------------------------------
(* process_document *)

\* process_document(file_path) up to the extraction: get_document_metadata,
\* the early return on 'error', the dispatch on the lowered extension
ProcessDocument ==
    /\ pc = "idle"
    /\ \E f \in Files, m \in ExcMessages :
        /\ entry' = "process_document"
        /\ file' = f
        /\ IF ~f.exists
           THEN /\ metadata' = [error |-> MetadataErrorPrefix \o m]
                /\ content' = <<>>
                /\ pc' = "done"
           ELSE /\ metadata' = [content_length |-> 0, extraction_success |-> FALSE]
                /\ IF Lower(f.ext) = DocxExt
                   THEN pc' = "docx_open" /\ UNCHANGED content
                   ELSE /\ content' = UnsupportedPrefix \o Lower(f.ext)
                        /\ pc' = "update_metadata"
    /\ UNCHANGED <<structured_vars, manual_vars, formatted_vars, fmt_ret, manual_ret>>

\* process_document after the extraction: the metadata update and the return
UpdateMetadata ==
    /\ pc = "update_metadata"
    /\ metadata' = [metadata EXCEPT !.content_length = Len(content),
                                    !.extraction_success = ExtractionSuccess(content)]
    /\ pc' = "done"
    /\ UNCHANGED <<entry, file, structured_vars, manual_vars, formatted_vars, return_vars>>

----------------------------------------------------------------------------
(* extract_docx_content *)

\* a caller invokes extract_docx_content(file_path) itself
ExtractDocxContent ==
    /\ pc = "idle"
    /\ \E e \in BOOLEAN :
        file' = [exists |-> e, ext |-> DocxExt]
    /\ entry' = "extract_docx_content"
    /\ pc' = "docx_open"
    /\ UNCHANGED <<structured_vars, manual_vars, formatted_vars, return_vars, metadata>>

\* doc = Document(file_path) succeeds; text_parts = []
DocumentOpen ==
    /\ pc = "docx_open"
    /\ file.exists
    /\ \E pk \in DocSizes : \E d \in DocsOfSize(pk[1], pk[2]) : doc' = d
    /\ text_parts' = <<>>
    /\ para_i' = 1
    /\ pc' = "paragraphs"
    /\ UNCHANGED <<entry, file, table_i, row_i, discarded, printed, manual_vars,
                   formatted_vars, return_vars, metadata>>

\* one iteration of the loop over doc.paragraphs
ParagraphStep ==
    /\ pc = "paragraphs"
    /\ para_i <= Len(doc.paragraphs)
    /\ text_parts' = IF Strip(doc.paragraphs[para_i]) # <<>>
                     THEN Append(text_parts, Strip(doc.paragraphs[para_i]))
                     ELSE text_parts
    /\ para_i' = para_i + 1
    /\ UNCHANGED <<pc, entry, file, doc, table_i, row_i, discarded, printed, manual_vars,
                   formatted_vars, return_vars, metadata>>

\* the loop over doc.paragraphs ends; the loop over doc.tables starts
ParagraphsDone ==
    /\ pc = "paragraphs"
    /\ para_i > Len(doc.paragraphs)
    /\ table_i' = 1
    /\ row_i' = 1
    /\ pc' = "tables"
    /\ UNCHANGED <<entry, file, doc, text_parts, para_i, discarded, printed, manual_vars,
                   formatted_vars, return_vars, metadata>>

\* one iteration of the loop over table.rows, with its loop over row.cells
TableRowStep ==
    /\ pc = "tables"
    /\ table_i <= Len(doc.tables)
    /\ row_i <= Len(doc.tables[table_i])
    /\ LET row_text == RowText(doc.tables[table_i][row_i], <<>>)
       IN  text_parts' = IF row_text # <<>>
                         THEN Append(text_parts, Join(Pipe, row_text))
                         ELSE text_parts
    /\ row_i' = row_i + 1
    /\ UNCHANGED <<pc, entry, file, doc, para_i, table_i, discarded, printed, manual_vars,
                   formatted_vars, return_vars, metadata>>

\* the rows of a table are exhausted: on to the next table
TableDone ==
    /\ pc = "tables"
    /\ table_i <= Len(doc.tables)
    /\ row_i > Len(doc.tables[table_i])
    /\ table_i' = table_i + 1
    /\ row_i' = 1
    /\ UNCHANGED <<pc, entry, file, doc, text_parts, para_i, discarded, printed, manual_vars,
                   formatted_vars, return_vars, metadata>>

\* return '\n\n'.join(text_parts)
StructuredReturn ==
    /\ pc = "tables"
    /\ table_i > Len(doc.tables)
    /\ ReturnFromExtract(Join(BlankLine, text_parts))
    /\ UNCHANGED <<entry, file, structured_vars, manual_vars, formatted_vars, fmt_ret,
                   manual_ret, metadata>>

\* what the except clause leaves behind of the text_parts collected so far
Discarded(parts) ==
    IF parts = <<>> THEN "nothing"
    ELSE IF \E i \in 1..Len(parts) : Contains(parts[i], Pipe) THEN "piped_row"
    ELSE "items"

\* the structured path raises: in Document(file_path) (always, when the file
\* does not exist), or while doc.paragraphs or doc.tables are iterated; the
\* except clause prints and calls _extract_docx_manual. The locals of the try
\* block are dead from here on; of the items collected only a summary is kept.
StructuredRaise ==
    /\ \/ pc = "docx_open"
       \/ pc = "paragraphs"
       \/ pc = "tables" /\ table_i <= Len(doc.tables)
    /\ \E m \in DocxExcMessages : StructuredExcept(m)
    /\ discarded' = IF pc = "docx_open" THEN "nothing" ELSE Discarded(text_parts)
    /\ doc' = NoDoc
    /\ text_parts' = <<>>
    /\ para_i' = 0
    /\ table_i' = 0
    /\ row_i' = 0
    /\ UNCHANGED <<entry, file, manual_vars, formatted_vars, return_vars, metadata>>

----------------------------------------------------------------------------
(* _extract_docx_manual *)

\* a caller invokes _extract_docx_manual(file_path) itself
ExtractDocxManual ==
    /\ pc = "idle"
    /\ \E e \in BOOLEAN :
        file' = [exists |-> e, ext |-> DocxExt]
    /\ entry' = "_extract_docx_manual"
    /\ pc' = "manual_open"
    /\ UNCHANGED <<structured_vars, manual_vars, formatted_vars, return_vars, metadata>>

\* zipfile.ZipFile(file_path, 'r') raises (always, when the file does not exist)
ArchiveOpenFails ==
    /\ pc = "manual_open"
    /\ manual_calls' = manual_calls + 1
    /\ archive' = "bad"
    /\ \E m \in ExcMessages : ManualExcept(m)
    /\ UNCHANGED <<entry, file, structured_vars, parsed, formatted_vars, fmt_ret, metadata>>

\* a missing entry that is not noticed: the parse is attempted
ArchiveWithoutEntryUnnoticed ==
    /\ pc = "manual_open"
    /\ file.exists
    /\ manual_calls' = manual_calls + 1
    /\ archive' = "no_entry"
    /\ pc' = "parse"
    /\ UNCHANGED <<entry, file, structured_vars, parsed, formatted_vars, return_vars, metadata>>

\* the archive opens and 'word/document.xml' is not in namelist()
ArchiveWithoutEntry ==
    /\ pc = "manual_open"
    /\ file.exists
    /\ manual_calls' = manual_calls + 1
    /\ archive' = "no_entry"
    /\ ReturnFromManual(MissingEntryError)
    /\ UNCHANGED <<entry, file, structured_vars, parsed, formatted_vars, fmt_ret, metadata>>

\* the archive opens and 'word/document.xml' is in namelist()
ArchiveWithEntry ==
    /\ pc = "manual_open"
    /\ file.exists
    /\ manual_calls' = manual_calls + 1
    /\ archive' = "ok"
    /\ pc' = "parse"
    /\ UNCHANGED <<entry, file, structured_vars, parsed, formatted_vars, return_vars, metadata>>

\* docx_zip.open / ET.parse raises
ParseFails ==
    /\ pc = "parse"
    /\ parsed' = "failed"
    /\ \E m \in ExcMessages : ManualExcept(m)
    /\ UNCHANGED <<entry, file, structured_vars, manual_calls, archive, formatted_vars,
                   fmt_ret, metadata>>

\* tree = ET.parse(xml_file); root = tree.getroot(); _extract_formatted_text(root) is called
ParseMarkup ==
    /\ pc = "parse"
    /\ parsed' = "ok"
    /\ \E n \in 1..MaxNodes : \E f \in FieldSets(n) : \E par \in Shapes(n) :
         \E tg \in [1..n -> Tags] :
            /\ IsParsedRoot(TreeOf(n, par, tg, f))
            /\ root' = TreeOf(n, par, tg, f)
    /\ pc' = "tier1"
    /\ UNCHANGED <<entry, file, structured_vars, manual_calls, archive, xml_text_parts,
                   tiers_run, tier_of_items, return_vars, metadata>>

----------------------------------------------------------------------------
(* _extract_formatted_text *)

\* a caller invokes _extract_formatted_text(root) itself, on any Element
ExtractFormattedText ==
    /\ pc = "idle"
    /\ \E n \in 1..MaxNodes : \E f \in FieldSets(n) : \E par \in Shapes(n) :
         \E tg \in [1..n -> Tags] :
            root' = TreeOf(n, par, tg, f)
    /\ entry' = "_extract_formatted_text"
    /\ pc' = "tier1"
    /\ UNCHANGED <<file, structured_vars, manual_vars, xml_text_parts, tiers_run,
                   tier_of_items, return_vars, metadata>>

\* text_parts = []; the loop over root.findall('.//w:p', namespaces)
Tier1 ==
    /\ pc = "tier1"
    /\ LET parts == ParagraphScan(root, FindAllParagraphs(root), <<>>)
       IN  /\ xml_text_parts' = parts
           /\ tier_of_items' = IF parts # <<>> THEN 1 ELSE 0
    /\ tiers_run' = {1}
    /\ pc' = "tier2"
    /\ UNCHANGED <<entry, file, structured_vars, manual_vars, root, return_vars, metadata>>

\* a whole-tree text that is added whatever tier 1 found
Tier2Unguarded ==
    /\ pc = "tier2"
    /\ xml_text_parts' = xml_text_parts \o WholeTreeText(root)
    /\ tier_of_items' = IF WholeTreeText(root) # <<>> THEN 2 ELSE tier_of_items
    /\ tiers_run' = tiers_run \cup {2}
    /\ pc' = "tier3"
    /\ UNCHANGED <<entry, file, structured_vars, manual_vars, root, return_vars, metadata>>

\* if not text_parts: the whole-tree text
Tier2 ==
    /\ pc = "tier2"
    /\ IF xml_text_parts = <<>>
       THEN /\ LET parts == WholeTreeText(root)
               IN  /\ xml_text_parts' = parts
                   /\ tier_of_items' = IF parts # <<>> THEN 2 ELSE 0
            /\ tiers_run' = tiers_run \cup {2}
       ELSE UNCHANGED <<xml_text_parts, tiers_run, tier_of_items>>
    /\ pc' = "tier3"
    /\ UNCHANGED <<entry, file, structured_vars, manual_vars, root, return_vars, metadata>>

\* if not text_parts: the walk over every element
Tier3 ==
    /\ pc = "tier3"
    /\ IF xml_text_parts = <<>>
       THEN /\ LET parts == ElementWalk(root, 1, <<>>)
               IN  /\ xml_text_parts' = parts
                   /\ tier_of_items' = IF parts # <<>> THEN 3 ELSE 0
            /\ tiers_run' = tiers_run \cup {3}
       ELSE UNCHANGED <<xml_text_parts, tiers_run, tier_of_items>>
    /\ pc' = "formatted_return"
    /\ UNCHANGED <<entry, file, structured_vars, manual_vars, root, return_vars, metadata>>

\* return '\n\n'.join(text_parts)
FormattedReturn ==
    /\ pc = "formatted_return"
    /\ ReturnFromFormatted(Join(BlankLine, xml_text_parts))
    /\ UNCHANGED <<entry, file, structured_vars, manual_vars, formatted_vars, metadata>>

----------------------------------------------------------------------------

Next ==
    \/ ProcessDocument
    \/ UpdateMetadata
    \/ ExtractDocxContent
    \/ DocumentOpen
    \/ ParagraphStep
    \/ ParagraphsDone
    \/ TableRowStep
    \/ TableDone
    \/ StructuredReturn
    \/ StructuredRaise
    \/ ExtractDocxManual
    \/ ArchiveOpenFails
    \/ ArchiveWithoutEntry
    \/ ArchiveWithEntry
    \/ ParseFails
    \/ ParseMarkup
    \/ ExtractFormattedText
    \/ Tier1
    \/ Tier2
    \/ Tier3
    \/ FormattedReturn

Spec == Init /\ [][Next]_vars

----------------------------------------------------------------------------
(* Vocabulary of the properties, stated without the operators of the code *)

\* t holds whitespace only (or nothing)
IsBlank(t) == \A i \in 1..Len(t) : t[i] \in Whitespace

\* t between its first and its last non-whitespace character
Trimmed(t) ==
    IF IsBlank(t) THEN <<>>
    ELSE LET lo == CHOOSE i \in 1..Len(t) :
                     t[i] \notin Whitespace /\ \A j \in 1..(i - 1) : t[j] \in Whitespace
             hi == CHOOSE i \in 1..Len(t) :
                     t[i] \notin Whitespace /\ \A j \in (i + 1)..Len(t) : t[j] \in Whitespace
         IN  SubSeq(t, lo, hi)

\* a non-empty string with no whitespace at either end
IsTrimmedItem(t) == t # <<>> /\ t[1] \notin Whitespace /\ t[Len(t)] \notin Whitespace

\* the first k items, each two neighbours separated by sep
RECURSIVE JoinedUpTo(_, _, _)
JoinedUpTo(sep, items, k) ==
    IF k = 0 THEN <<>>
    ELSE IF k = 1 THEN items[1]
    ELSE JoinedUpTo(sep, items, k - 1) \o sep \o items[k]

Joined(sep, items) == JoinedUpTo(sep, items, Len(items))

\* the trimmed texts of the members of texts that are not blank, in order
TrimmedNonBlank(texts) ==
    LET kept == SelectSeq(texts, LAMBDA t : ~IsBlank(t))
    IN  [i \in 1..Len(kept) |-> Trimmed(kept[i])]

\* the rows of all tables, tables in order, rows in order
RECURSIVE RowsOf(_)
RowsOf(tables) == IF tables = <<>> THEN <<>> ELSE Head(tables) \o RowsOf(Tail(tables))

\* the items the structured path is to return for Document d
StructuredItems(d) ==
    LET rows == SelectSeq(RowsOf(d.tables), LAMBDA r : \E c \in 1..Len(r) : ~IsBlank(r[c]))
    IN  TrimmedNonBlank(d.paragraphs)
        \o [i \in 1..Len(rows) |-> Joined(Pipe, TrimmedNonBlank(rows[i]))]

\* extract_docx_content has returned and the structured path completed
StructuredSucceeded ==
    /\ pc \in {"update_metadata", "done"}
    /\ entry \in {"extract_docx_content", "process_document"}
    /\ para_i > 0

\* extract_docx_content has returned after the structured path raised
StructuredFailed ==
    /\ pc \in {"update_metadata", "done"}
    /\ entry \in {"extract_docx_content", "process_document"}
    /\ printed # <<>>

\* _extract_docx_manual has returned
ManualReturned == manual_ret # None

\* _extract_formatted_text has returned
FormattedReturned == fmt_ret # None

\* the items tier 1 is to yield for tree t
Tier1Items(t) ==
    LET paras == FindAllParagraphs(t)
    IN  TrimmedNonBlank([i \in 1..Len(paras) |-> Concat(IterText(t, paras[i]))])

\* the concatenated descendant text of the root of t
RootText(t) == Concat(IterText(t, 1))

----------------------------------------------------------------------------
(* C1: extract_docx_content and _extract_docx_manual always end by returning
   a string, whatever the document library, the archive open or the markup
   parse do: no exception reaches the caller ("uncaught" is the position of
   a call left by an exception), every position of the two functions has a
   next step, and a finished call has returned a string. *)
C1_NeverPropagates ==
    /\ pc # "uncaught"
    /\ pc = "docx_open" => ENABLED (DocumentOpen \/ StructuredRaise)
    /\ pc = "paragraphs" => ENABLED (ParagraphStep \/ ParagraphsDone)
    /\ pc = "tables" => ENABLED (TableRowStep \/ TableDone \/ StructuredReturn)
    /\ pc = "manual_open" => ENABLED (ArchiveOpenFails \/ ArchiveWithoutEntry \/ ArchiveWithEntry)
    /\ pc = "parse" => ENABLED (ParseFails \/ ParseMarkup)
    /\ (pc = "done" /\ entry = "extract_docx_content") => content # None
    /\ (pc = "done" /\ entry = "_extract_docx_manual") => manual_ret # None

\* both strategies failed, and the caller still got a string
C1_Witness ==
    /\ pc = "done"
    /\ entry = "extract_docx_content"
    /\ printed # <<>>
    /\ archive = "bad"
    /\ StartsWith(content, ManualErrorPrefix)

(* C2: for every existing file whose extension is not '.docx',
   process_document returns an unsupported-format string and a metadata map
   whose extraction_success is false. *)
C2_UnsupportedNotSuccessful ==
    (pc = "done" /\ entry = "process_document" /\ file.exists /\ file.ext # DocxExt)
        => /\ StartsWith(content, UnsupportedPrefix)
           /\ metadata.extraction_success = FALSE

(* C3: when the structured path succeeds, the result is the trimmed
   non-blank paragraph texts in order, then one item per table row with a
   non-blank cell (its trimmed non-blank cells joined by ' | '), tables and
   rows in order, all joined by '\n\n'. *)
C3_StructuredResult ==
    StructuredSucceeded => content = Joined(BlankLine, StructuredItems(doc))

\* a paragraph item followed by a row item that joins two cells
C3_Witness ==
    /\ StructuredSucceeded
    /\ pc = "done"
    /\ \E i \in 1..Len(doc.paragraphs) : ~IsBlank(doc.paragraphs[i])
    /\ \E t \in 1..Len(doc.tables) : \E r \in 1..Len(doc.tables[t]) :
          Len(TrimmedNonBlank(doc.tables[t][r])) >= 2
    /\ Len(StructuredItems(doc)) >= 2

\* s begins with p
HasPrefix(s, p) == Len(s) >= Len(p) /\ \A i \in 1..Len(p) : s[i] = p[i]

\* x is one of the items of c, the items of c being separated by blank lines
IsItemOf(x, c) ==
    \E k \in 0..(Len(c) - Len(x)) :
        /\ SubSeq(c, k + 1, k + Len(x)) = x
        /\ k = 0 \/ (k >= 2 /\ SubSeq(c, k - 1, k) = BlankLine)
        /\ k + Len(x) = Len(c)
           \/ (k + Len(x) + 2 <= Len(c) /\ SubSeq(c, k + Len(x) + 1, k + Len(x) + 2) = BlankLine)

\* extract_docx_content has returned
ExtractReturned ==
    /\ pc \in {"update_metadata", "done"}
    /\ entry \in {"extract_docx_content", "process_document"}
    /\ content # None
    /\ StructuredSucceeded \/ StructuredFailed

\* the rows of Document d that hold two non-blank cells or more
PipedRows(d) ==
    SelectSeq(RowsOf(d.tables), LAMBDA r : Len(TrimmedNonBlank(r)) >= 2)

(* C4, as claimed: for every DOCX input with a table holding non-empty
   cells (here: a row of two non-blank cells or more, seen by the structured
   path), the returned string, when it is neither empty nor an error string,
   contains cell texts joined by ' | '. *)
C4_PipedLineInEveryResult ==
    (/\ ExtractReturned
     /\ PipedRows(doc) # <<>> \/ discarded = "piped_row"
     /\ content # <<>>
     /\ ~HasPrefix(content, ErrorPrefix))
        => Contains(content, Pipe)

(* C4, amended: when the structured path succeeds, every table row with two
   non-blank cells or more is an item of the result, its trimmed non-blank
   cell texts joined by ' | '. *)
C4_PipedLineOfStructuredResult ==
    StructuredSucceeded =>
        \A i \in 1..Len(PipedRows(doc)) :
            IsItemOf(Joined(Pipe, TrimmedNonBlank(PipedRows(doc)[i])), content)

\* a structured result with a row of two non-blank cells
C4_Witness ==
    /\ StructuredSucceeded
    /\ pc = "done"
    /\ PipedRows(doc) # <<>>
    /\ Contains(content, Pipe)

(* C5: an archive that opens without the entry 'word/document.xml' makes
   _extract_docx_manual return exactly 'Error: Could not find document.xml
   in DOCX file', with no markup parsed and no tier run; an archive-open or
   markup-parse failure makes it return a string that begins
   'Error extracting DOCX content: '. *)
C5_ManualErrorStrings ==
    /\ archive = "no_entry" =>
          /\ manual_ret = MissingEntryError
          /\ parsed = "no"
          /\ tiers_run = {}
          /\ fmt_ret = None
    /\ (archive = "bad" \/ parsed = "failed") =>
          /\ HasPrefix(manual_ret, ManualErrorPrefix)
          /\ tiers_run = {}

\* the fallback called on an archive without the entry
C5_Witness ==
    /\ pc = "done"
    /\ entry = "_extract_docx_manual"
    /\ archive = "no_entry"
    /\ manual_ret = MissingEntryError

(* C6: the tiers of _extract_formatted_text run in order, a later one
   contributing only when the earlier ones produced nothing: tier-1 items
   alone when tier 1 yields any; else the trimmed whole-tree text alone when
   it is not blank; tier-3 items only when tiers 1 and 2 yielded nothing. *)
C6_TierOrder ==
    /\ 2 \in tiers_run => 1 \in tiers_run
    /\ 3 \in tiers_run => 2 \in tiers_run
    /\ FormattedReturned =>
          /\ Tier1Items(root) # <<>> =>
                /\ fmt_ret = Joined(BlankLine, Tier1Items(root))
                /\ tiers_run = {1}
                /\ tier_of_items = 1
          /\ (Tier1Items(root) = <<>> /\ ~IsBlank(RootText(root))) =>
                /\ fmt_ret = Trimmed(RootText(root))
                /\ tiers_run = {1, 2}
                /\ tier_of_items = 2
          /\ (tier_of_items = 3 \/ 3 \in tiers_run) =>
                /\ Tier1Items(root) = <<>>
                /\ IsBlank(RootText(root))

\* tier 1 yielded items while the root has text of its own, which tier 2
\* would have added
C6_Witness ==
    /\ FormattedReturned
    /\ Tier1Items(root) # <<>>
    /\ ~IsBlank(root.text[1])

\* the only non-blank field of tree t is the tail of element j
OnlyTailOf(t, j) ==
    /\ ~IsBlank(t.tail[j])
    /\ \A i \in 1..t.n : IsBlank(t.text[i]) /\ (i # j => IsBlank(t.tail[i]))

(* C7, as claimed: for a tree with no text in its paragraphs or in any
   element's own text, and a non-blank tail on a non-root element, tier 3
   activates and the returned string is that tail text. *)
C7_Tier3ReturnsTail ==
    FormattedReturned =>
        \A j \in 2..root.n :
            OnlyTailOf(root, j) /\ Tier1Items(root) = <<>> =>
                /\ 3 \in tiers_run
                /\ tier_of_items = 3
                /\ fmt_ret = Trimmed(root.tail[j])

(* C7, amended: a non-blank tail on a non-root element is part of the
   whole-tree text, so tier 3 never runs for such a tree; when tier 1 yields
   nothing the result is the trimmed whole-tree text, which is that tail
   text when it is the only text; tier 3 yields nothing but the tail of the
   root itself. *)
C7_TailReturnedByTier2 ==
    FormattedReturned =>
        /\ \A j \in 2..root.n :
              ~IsBlank(root.tail[j]) =>
                  /\ 3 \notin tiers_run
                  /\ tier_of_items \in {1, 2}
                  /\ Tier1Items(root) = <<>> => fmt_ret = Trimmed(RootText(root))
                  /\ (OnlyTailOf(root, j) /\ Tier1Items(root) = <<>>) =>
                        /\ tier_of_items = 2
                        /\ fmt_ret = Trimmed(root.tail[j])
        /\ tier_of_items = 3 => xml_text_parts = << Trimmed(root.tail[1]) >>

\* the only text of the tree is the tail of a non-root element, and it is returned
C7_Witness ==
    /\ FormattedReturned
    /\ \E j \in 2..root.n :
          /\ OnlyTailOf(root, j)
          /\ Tier1Items(root) = <<>>
          /\ fmt_ret = Trimmed(root.tail[j])

(* C8: whitespace-only content is excluded everywhere: every item collected
   by the structured path and by the three fallback tiers is non-empty with
   no whitespace at either end, and a document holding nothing but
   whitespace yields the empty string. *)
C8_NoBlankItems ==
    /\ \A i \in 1..Len(text_parts) : IsTrimmedItem(text_parts[i])
    /\ \A i \in 1..Len(xml_text_parts) : IsTrimmedItem(xml_text_parts[i])
    /\ (/\ StructuredSucceeded
        /\ \A i \in 1..Len(doc.paragraphs) : IsBlank(doc.paragraphs[i])
        /\ \A i \in 1..Len(RowsOf(doc.tables)) :
              \A c \in 1..Len(RowsOf(doc.tables)[i]) : IsBlank(RowsOf(doc.tables)[i][c]))
          => content = <<>>
    /\ (/\ FormattedReturned
        /\ \A i \in 1..root.n : IsBlank(root.text[i]) /\ IsBlank(root.tail[i]))
          => fmt_ret = <<>>

\* all three tiers ran on a tree with whitespace-only text and found nothing
C8_Witness ==
    /\ FormattedReturned
    /\ tiers_run = {1, 2, 3}
    /\ \E i \in 1..root.n : root.text[i] = <<" ">> /\ root.tag[i] = ParagraphTag
    /\ \E i \in 1..root.n : root.tail[i] = <<" ">>
    /\ fmt_ret = <<>>

(* C9: after process_document on an existing file, extraction_success is
   true exactly when the content is non-empty and does not start with
   'Error', and content_length is the length of the content; the error
   sentinels and the empty result are flagged not successful. *)
C9_SuccessFlag ==
    (pc = "done" /\ entry = "process_document" /\ file.exists) =>
        /\ metadata.extraction_success = (content # <<>> /\ ~HasPrefix(content, ErrorPrefix))
        /\ metadata.content_length = Len(content)
        /\ (archive \in {"bad", "no_entry"} \/ parsed = "failed")
              => metadata.extraction_success = FALSE
        /\ content = <<>> => metadata.extraction_success = FALSE

\* an error sentinel of the fallback, flagged not successful
C9_Witness ==
    /\ pc = "done"
    /\ entry = "process_document"
    /\ file.exists
    /\ archive = "no_entry"
    /\ content = MissingEntryError
    /\ metadata.extraction_success = FALSE
    /\ metadata.content_length = Len(MissingEntryError)

(* C10: the fallback runs exactly when the structured path fails, at most
   once per call: a completed structured path returns its own result and
   never calls the fallback; a structured path that raises, anywhere, drops
   what it collected, its error text is only printed, and the value returned
   is the value _extract_docx_manual returned. *)
C10_FallbackExactlyOnFailure ==
    /\ manual_calls <= 1
    /\ Len(printed) <= 1
    /\ (entry # "_extract_docx_manual" /\ manual_calls = 1) => printed # <<>>
    /\ StructuredSucceeded =>
          /\ manual_calls = 0
          /\ printed = <<>>
          /\ manual_ret = None
          /\ content = Joined(BlankLine, text_parts)
    /\ StructuredFailed =>
          /\ manual_calls = 1
          /\ content = manual_ret
          /\ content # None
          /\ ~Contains(content, printed[1])
          /\ parsed = "ok" => content = fmt_ret

\* the structured path raised with items collected, and the fallback's
\* text was returned
C10_Witness ==
    /\ StructuredFailed
    /\ pc = "done"
    /\ discarded # "nothing"
    /\ parsed = "ok"
    /\ content = fmt_ret
    /\ content # <<>>

====
